---------------------------- MODULE Spec2Model ----------------------------
(***************************************************************************)
(* The native API surface generator of pocketlang, in its two variants:    *)
(* scripts/generate_native.py ("scripts") and cli/native.py ("cli").       *)
(*                                                                         *)
(* Text is a sequence of lexemes.  A lexeme is either a word (a maximal    *)
(* run of the characters [a-zA-Z0-9_]) or one single character that is not *)
(* a word character.  No two words are adjacent in an input text, so a     *)
(* header text and its lexeme sequence determine each other, and every     *)
(* character operation of the code (find, rfind, split, strip, slicing,    *)
(* the three regular expressions) is carried out on lexemes.  The only     *)
(* places where the code cuts inside a word are the slices that follow a   *)
(* failed find (index -1); ButLast and LastChar give the two halves.       *)
(* Emitted text keeps every line feed as a lexeme of its own.              *)
(***************************************************************************)
EXTENDS Integers, Sequences, FiniteSets, TLC

VARIABLES variant, header, preamble, decls, pc, api_functions,
          plugin, plugin_file, host, host_file, stdout, exit_status,
          header_file, stderr, run, first_plugin, first_host

\* The test runner (scripts/run_tests.py and tests/tests.py), a program of
\* its own: which of the two files runs, where it is, the suite and the test
\* the loops of run_all_tests are at, the global tests_failed, the return
\* code of the last subprocess, the tests run so far, whether one of them
\* returned nonzero, and the exit status.
VARIABLES runner, rt_pc, suite_index, test_index, tests_failed,
          returncode, ran, any_nonzero, rt_status

\* The state of the generator.
generator == <<variant, header, preamble, decls, pc, api_functions,
               plugin, plugin_file, host, host_file, stdout, exit_status,
               header_file, stderr, run, first_plugin, first_host>>

\* The state of the test runner.
tests == <<runner, rt_pc, suite_index, test_index, tests_failed,
           returncode, ran, any_nonzero, rt_status>>

\* The static checker (check_static of scripts/static_check.py and of its
\* older copy tests/check.py), a program of its own, on one file: the lines
\* the file holds, whether its last line ends with a line feed, where the
\* checker is, line_no and is_last_empty of the loop, the errors reported
\* so far, and the global checks_failed.
VARIABLES ck_file, ck_terminated, ck_pc, line_no, is_last_empty, reports,
          checks_failed

\* The state of the static checker.
checker == <<ck_file, ck_terminated, ck_pc, line_no, is_last_empty, reports,
             checks_failed>>

\* The state of the programs that are not the generator.
elsewhere == <<tests, checker>>

vars == <<generator, elsewhere>>

\* What one run never changes: the artifacts the run before it left.
earlier == <<run, first_plugin, first_host>>

\* The largest number of declarations after the preamble of a header.
MaxDecls == 2

---------------------------------------------------------------------------
\* Characters and strings of Python, on lexemes.

\* The characters \s matches, among those a header holds.
Whitespace == {" ", "\n", "\t"}

\* The single characters that are not word characters.
Punct == Whitespace \cup {"(", ")", ",", ";", "*", ".", "/"}

\* [a-zA-Z0-9_]+ : a whole word.
IsWord(t) == t \notin Punct

\* w[:-1] of a word.
ButLast(w) ==
  CASE w = "int" -> "in"
    [] w = "void" -> "voi"
    [] w = "char" -> "cha"
    [] w = "const" -> "cons"
    [] w = "PKVM" -> "PKV"
    [] w = "a" -> ""
    [] w = "b" -> ""
    [] OTHER -> w

\* w[-1:] of a word.
LastChar(w) ==
  CASE w = "int" -> "t"
    [] w = "void" -> "d"
    [] w = "char" -> "r"
    [] w = "const" -> "t"
    [] w = "PKVM" -> "M"
    [] w = "a" -> "a"
    [] w = "b" -> "b"
    [] OTHER -> ""

Min(a, b) == IF a < b THEN a ELSE b

\* s[:-1] : everything but the last character.
DropLastChar(s) ==
  IF s = <<>> THEN <<>>
  ELSE LET w == s[Len(s)]
           front == SubSeq(s, 1, Len(s) - 1)
       IN IF IsWord(w) /\ ButLast(w) # "" THEN Append(front, ButLast(w))
          ELSE front

\* s[-1:] : the last character.
TakeLastChar(s) ==
  IF s = <<>> THEN <<>>
  ELSE LET w == s[Len(s)]
       IN IF IsWord(w) THEN <<LastChar(w)>> ELSE <<w>>

\* Whether pat occurs in s at the 1-based position p.
OccursAt(s, pat, p) ==
  /\ p >= 1
  /\ p + Len(pat) - 1 <= Len(s)
  /\ \A k \in 1..Len(pat) : s[p + k - 1] = pat[k]

\* s.find(pat): the 0-based index of the first occurrence, or -1.
PyFind(s, pat) ==
  LET hits == {p \in 1..Len(s) : OccursAt(s, pat, p)}
  IN IF hits = {} THEN -1
     ELSE (CHOOSE p \in hits : \A q \in hits : p <= q) - 1

\* s.rfind(pat): the 0-based index of the last occurrence, or -1.
PyRfind(s, pat) ==
  LET hits == {p \in 1..Len(s) : OccursAt(s, pat, p)}
  IN IF hits = {} THEN -1
     ELSE (CHOOSE p \in hits : \A q \in hits : p >= q) - 1

\* pat in s
Contains(s, pat) == PyFind(s, pat) # -1

\* s[a:] for a 0-based index a >= 0, or a = -1 after a failed find.
SliceFrom(s, a) ==
  IF a = -1 THEN TakeLastChar(s)
  ELSE SubSeq(s, Min(a, Len(s)) + 1, Len(s))

\* s[:b] for a 0-based index b >= 0, or b = -1 after a failed find.
SliceTo(s, b) ==
  IF b = -1 THEN DropLastChar(s)
  ELSE SubSeq(s, 1, Min(b, Len(s)))

\* s[a:b] for a >= 0.
Slice(s, a, b) == SliceFrom(SliceTo(s, b), a)

\* s.strip()
RECURSIVE LStrip(_)
LStrip(s) ==
  IF s # <<>> /\ Head(s) \in Whitespace THEN LStrip(Tail(s)) ELSE s

RECURSIVE RStrip(_)
RStrip(s) ==
  IF s # <<>> /\ s[Len(s)] \in Whitespace
  THEN RStrip(SubSeq(s, 1, Len(s) - 1)) ELSE s

Strip(s) == RStrip(LStrip(s))

\* s.split(sep) for a single character sep: always at least one piece.
\* cuts holds the positions of sep in s, in order.
Split(s, sep) ==
  LET cuts == SelectSeq([i \in 1..Len(s) |-> i], LAMBDA i : s[i] = sep)
      m == Len(cuts)
  IN [k \in 1..(m + 1) |->
        SubSeq(s, IF k = 1 THEN 1 ELSE cuts[k - 1] + 1,
                  IF k = m + 1 THEN Len(s) ELSE cuts[k] - 1)]

\* sep.join(parts)
RECURSIVE Join(_, _)
Join(parts, sep) ==
  IF parts = <<>> THEN <<>>
  ELSE IF Len(parts) = 1 THEN parts[1]
  ELSE parts[1] \o sep \o Join(Tail(parts), sep)

\* "".join(parts)
Concat(parts) == Join(parts, <<>>)

---------------------------------------------------------------------------
\* The scanner and the parser.

SENTINEL == <<"POCKETLANG", " ", "PUBLIC", " ", "API">>

\* A get_source that returns the whole header.
get_source_whole(text) == text

\* get_source: the header from the sentinel on; find's -1 is used as it is.
get_source(text) == SliceFrom(text, PyFind(text, SENTINEL))

\* MULTIPLE_WHITE_SPACES.sub(" ", s): every run of white space becomes " ".
RECURSIVE CollapseSpaces(_)
CollapseSpaces(s) ==
  IF s = <<>> THEN <<>>
  ELSE IF Head(s) \in Whitespace
       THEN <<" ">> \o CollapseSpaces(LStrip(s))
       ELSE <<Head(s)>> \o CollapseSpaces(Tail(s))

flaten(s) == Strip(CollapseSpaces(s))

\* The class [\S\n ] of the declaration pattern.
InDeclClass(t) == t \notin (Whitespace \ {"\n", " "})

\* ^ under re.MULTILINE
AtLineStart(s, p) == p = 1 \/ s[p - 1] = "\n"

\* The lazy [\S\n ]+?; from q on: the position of the closing ';', or 0.
RECURSIVE LazyBodyEnd(_, _)
LazyBodyEnd(s, q) ==
  IF q > Len(s) THEN 0
  ELSE IF s[q] = ";" THEN q
  ELSE IF InDeclClass(s[q]) THEN LazyBodyEnd(s, q + 1)
  ELSE 0

\* ^PK_PUBLIC [\S\n ]+?; at p: the position of the match's last character,
\* or 0.  The body takes at least one character before the ';'.
DeclMatchEnd(s, p) ==
  IF /\ AtLineStart(s, p)
     /\ OccursAt(s, <<"PK_PUBLIC", " ">>, p)
     /\ p + 2 <= Len(s)
     /\ InDeclClass(s[p + 2])
  THEN LazyBodyEnd(s, p + 3)
  ELSE 0

\* re.findall: the matches from left to right, none overlapping.
RECURSIVE FindAllFrom(_, _)
FindAllFrom(s, p) ==
  IF p > Len(s) THEN <<>>
  ELSE LET q == DeclMatchEnd(s, p)
       IN IF q > 0 THEN <<SubSeq(s, p, q)>> \o FindAllFrom(s, q + 1)
          ELSE FindAllFrom(s, p + 1)

FindAll(s) == FindAllFrom(s, 1)

\* re.search of PK_PUBLIC (.*?) ([a-zA-Z0-9_]+)\( : a match starts at i with
\* "PK_PUBLIC " and has its second space at j, a word and '(' after it.
NameMatches(d) ==
  {m \in (1..Len(d)) \X (1..Len(d)) :
     /\ OccursAt(d, <<"PK_PUBLIC", " ">>, m[1])
     /\ m[2] >= m[1] + 2
     /\ m[2] + 2 <= Len(d)
     /\ d[m[2]] = " "
     /\ IsWord(d[m[2] + 1])
     /\ d[m[2] + 2] = "("
     /\ \A k \in (m[1] + 2)..(m[2] - 1) : d[k] # "\n"}

\* The leftmost start, and for it the shortest first group.
NameMatch(d) ==
  CHOOSE m \in NameMatches(d) :
    \A o \in NameMatches(d) : m[1] < o[1] \/ (m[1] = o[1] /\ m[2] <= o[2])

\* One parameter of params_match.split(','): (param_name, param_type).
parse_param(param) ==
  LET last_space == PyRfind(param, <<" ">>)
  IN [name |-> Strip(SliceFrom(param, last_space)),
      type |-> Strip(SliceTo(param, last_space))]

\* A parse_params that knows "()" alone as the empty list.
parse_params_no_void(d) ==
  IF Contains(d, <<"(", ")">>)
  THEN <<>>
  ELSE LET params_match == Slice(d, PyFind(d, <<"(">>) + 1, PyFind(d, <<")">>))
           pieces == Split(params_match, ",")
       IN [i \in 1..Len(pieces) |-> parse_param(pieces[i])]

parse_params(d) ==
  IF Contains(d, <<"(", ")">>) \/ Contains(d, <<"(", "void", ")">>)
  THEN <<>>
  ELSE LET params_match == Slice(d, PyFind(d, <<"(">>) + 1, PyFind(d, <<")">>))
           pieces == Split(params_match, ",")
       IN [i \in 1..Len(pieces) |-> parse_param(pieces[i])]

\* Whether both assertions of parse_definition pass.
parses(d) == ~Contains(d, <<"\n">>) /\ NameMatches(d) # {}

\* parse_definition of a definition whose assertions pass.
parse_definition(d) ==
  LET m == NameMatch(d)
  IN [fn |-> d[m[2] + 1],
      params |-> parse_params(d),
      ret |-> SubSeq(d, m[1] + 2, m[2] - 1)]

\* A get_api_functions without the test for "..." of line 84.
definitions_unfiltered(v, text) ==
  LET match == FindAll(get_source(text))
  IN [i \in 1..Len(match) |-> flaten(match[i])]

\* A cli get_api_functions that hands over the matches as they are, not
\* flattened.
definitions_cli_unflattened(v, text) ==
  LET match == FindAll(get_source(text))
      flat == [i \in 1..Len(match) |-> flaten(match[i])]
  IN IF v = "scripts"
     THEN SelectSeq(flat, LAMBDA d : ~Contains(d, <<".", ".", ".">>))
     ELSE match

\* The definitions get_api_functions hands to parse_definition.
definitions(v, text) ==
  LET match == FindAll(get_source(text))
      flat == [i \in 1..Len(match) |-> flaten(match[i])]
  IN IF v = "scripts"
     THEN SelectSeq(flat, LAMBDA d : ~Contains(d, <<".", ".", ".">>))
     ELSE flat

\* Whether get_api_functions returns (no assertion fails).
get_api_functions_ok(v, text) ==
  LET defs == definitions(v, text)
  IN \A i \in 1..Len(defs) : parses(defs[i])

get_api_functions(v, text) ==
  LET defs == definitions(v, text)
  IN [i \in 1..Len(defs) |-> parse_definition(defs[i])]

---------------------------------------------------------------------------
\* The emitters.  A signature is [fn, params, ret]; a parameter [name, type].

PK_API == "pk_api"
PK_API_TYPE == "PkNativeApi"
PK_API_INIT == "pkInitApi"
DL_IMPLEMENT == "PK_DL_IMPLEMENT"


param_types(sig) == [i \in 1..Len(sig.params) |-> sig.params[i].type]
param_names(sig) == [i \in 1..Len(sig.params) |-> sig.params[i].name]
param_decls(sig) ==
  [i \in 1..Len(sig.params) |->
     sig.params[i].type \o <<" ">> \o sig.params[i].name]

fn_typedef(sig) ==
  <<"typedef ">> \o sig.ret \o <<" (*", sig.fn \o "_t", ")(">>
    \o Join(param_types(sig), <<", ">>) \o <<");", "\n">>

fn_typedefs(api) ==
  Concat([i \in 1..Len(api) |-> fn_typedef(api[i])]) \o <<"\n">>

api_field(sig) == <<"  ", sig.fn \o "_t", " ", sig.fn \o "_ptr", ";", "\n">>

\* An api_typedef that walks the list from its end.
api_typedef_reversed(api) ==
  <<"typedef struct {", "\n">>
    \o Concat([i \in 1..Len(api) |-> api_field(api[Len(api) + 1 - i])])
    \o <<"} " \o PK_API_TYPE \o ";", "\n">> \o <<"\n">>

api_typedef(api) ==
  <<"typedef struct {", "\n">>
    \o Concat([i \in 1..Len(api) |-> api_field(api[i])])
    \o <<"} " \o PK_API_TYPE \o ";", "\n">> \o <<"\n">>

\* A return_ that tests "void" in ret.
return_if_void_in(sig) ==
  IF Contains(sig.ret, <<"void">>) THEN "" ELSE "return "

\* return_ of define_functions
return_(sig) == IF sig.ret = <<"void">> THEN "" ELSE "return "

fn_def(sig) ==
  sig.ret \o <<" ", sig.fn, "(">> \o Join(param_decls(sig), <<", ">>)
    \o <<") {", "\n">>
    \o <<"  " \o return_(sig) \o PK_API \o ".", sig.fn \o "_ptr", "(">>
    \o Join(param_names(sig), <<", ">>) \o <<");", "\n">>
    \o <<"}", "\n", "\n">>

\* definitions[:-1]: the last character is a line feed, or there is none.
define_functions(api) ==
  LET definitions_ == Concat([i \in 1..Len(api) |-> fn_def(api[i])])
  IN SubSeq(definitions_, 1, Len(definitions_) - 1)

init_assign(sig) ==
  <<"\n", "  " \o PK_API \o ".", sig.fn \o "_ptr", " = api->",
    sig.fn \o "_ptr", ";">>

\* API_DEF % assign
API_DEF(v, assign) ==
  <<"static " \o PK_API_TYPE \o " " \o PK_API \o ";", "\n", "\n",
    (IF v = "scripts" THEN "PK_EXPORT void " ELSE "void ")
       \o PK_API_INIT \o "(" \o PK_API_TYPE \o "* api) {">>
    \o assign \o <<"\n", "}", "\n">>

\* An init_api whose loop assigns (=) where it should append (+=).
init_api_last_only(v, api) ==
  API_DEF(v, IF api = <<>> THEN <<>> ELSE init_assign(api[Len(api)]))
    \o <<"\n">>

init_api(v, api) ==
  API_DEF(v, Concat([i \in 1..Len(api) |-> init_assign(api[i])])) \o <<"\n">>

\* A make_assign that takes the field, as init_api does, for the function.
make_assign_from_field(sig) ==
  <<"  api.", sig.fn \o "_ptr", " = ", sig.fn \o "_ptr", ";", "\n">>

make_assign(sig) == <<"  api.", sig.fn \o "_ptr", " = ", sig.fn, ";", "\n">>

\* Where the build-flag guard opens and closes, in either variant.
GuardOpen(v) ==
  IF v = "scripts" THEN "#ifdef " \o DL_IMPLEMENT
  ELSE "#if defined(NATIVE_API_IMPLEMENT)"

GuardClose(v) ==
  IF v = "scripts" THEN "#endif // " \o DL_IMPLEMENT
  ELSE "#endif // NATIVE_API_IMPLEMENT"

\* The first line of the builder, in either variant.
BuilderHead(v) ==
  PK_API_TYPE \o (IF v = "scripts" THEN " pkMakeNativeAPI() {"
                  ELSE " dlMakeApi() {")

make_api(v, api) ==
  (IF v = "scripts" THEN <<>> ELSE <<GuardOpen(v), "\n", "\n">>)
    \o <<BuilderHead(v), "\n", "\n">>
    \o <<"  " \o PK_API_TYPE \o " api;", "\n", "\n">>
    \o Concat([i \in 1..Len(api) |-> make_assign(api[i])])
    \o <<"\n", "  return api;", "\n", "}", "\n", "\n">>
    \o (IF v = "scripts" THEN <<>> ELSE <<GuardClose(v), "\n", "\n">>)

GENERATED_MARK == "// !! THIS FILE IS GENERATED DO NOT EDIT !!"

COPYRIGHT ==
  <<"/*", "\n",
    " *  Copyright (c) 2020-2022 Thakee Nathees", "\n",
    " *  Copyright (c) 2021-2022 Pocketlang Contributors", "\n",
    " *  Distributed Under The MIT License", "\n",
    " */", "\n">>

\* A HEADER whose '%s' stands before the comment block.
HEADER_includes_first(includes) ==
  includes \o COPYRIGHT \o <<"\n", GENERATED_MARK, "\n", "\n">>

\* HEADER % includes
HEADER(includes) == COPYRIGHT \o includes \o <<"\n", GENERATED_MARK, "\n", "\n">>

SOURCE_GEN ==
  COPYRIGHT \o <<"\n", "#include <pocketlang.h>", "\n", "\n",
                 GENERATED_MARK, "\n", "\n">>

\* The fp.write calls of the first with-block of generate, in order.
plugin_writes(v, api) ==
  <<IF v = "scripts"
    THEN HEADER(<<"\n", "#include <pocketlang.h>", "\n">>)
    ELSE SOURCE_GEN,
    fn_typedefs(api), api_typedef(api), init_api(v, api),
    define_functions(api)>>

\* The fp.write calls of the second with-block of generate, in order.
host_writes(v, api) ==
  IF v = "scripts"
  THEN <<HEADER(<<"\n", "#ifndef PK_AMALGAMATED", "\n",
                  "#include <pocketlang.h>", "\n", "#endif", "\n", "\n">>),
         fn_typedefs(api), api_typedef(api),
         <<"#define PK_API_INIT_FN_NAME \"" \o PK_API_INIT \o "\" ", "\n">>,
         <<"#define PK_EXPORT_FN_NAME \"pkExportModule\" ", "\n", "\n">>,
         <<"#define PK_CLEANUP_FN_NAME \"pkCleanupModule\" ", "\n", "\n">>,
         <<"typedef void (*" \o PK_API_INIT \o "Fn)("
             \o PK_API_TYPE \o "*);", "\n">>,
         <<"typedef PkHandle* (*pkExportModuleFn)(PKVM*);", "\n">>,
         <<"\n">>,
         <<GuardOpen(v), "\n", "\n">>,
         make_api(v, api),
         <<GuardClose(v), "\n">> >>
  ELSE <<SOURCE_GEN, fn_typedefs(api), api_typedef(api), make_api(v, api)>>

\* Everything the first with-block of generate writes.
plugin_text(v, api) ==
  (IF v = "scripts"
   THEN HEADER(<<"\n", "#include <pocketlang.h>", "\n">>)
   ELSE SOURCE_GEN)
    \o fn_typedefs(api) \o api_typedef(api)
    \o init_api(v, api) \o define_functions(api)

\* Everything the second with-block of generate writes.
host_text(v, api) ==
  IF v = "scripts"
  THEN HEADER(<<"\n", "#ifndef PK_AMALGAMATED", "\n",
                "#include <pocketlang.h>", "\n", "#endif", "\n", "\n">>)
         \o fn_typedefs(api) \o api_typedef(api)
         \o <<"#define PK_API_INIT_FN_NAME \"" \o PK_API_INIT \o "\" ", "\n",
              "#define PK_EXPORT_FN_NAME \"pkExportModule\" ", "\n", "\n",
              "#define PK_CLEANUP_FN_NAME \"pkCleanupModule\" ", "\n", "\n",
              "typedef void (*" \o PK_API_INIT \o "Fn)("
                 \o PK_API_TYPE \o "*);", "\n",
              "typedef PkHandle* (*pkExportModuleFn)(PKVM*);", "\n",
              "\n">>
         \o <<GuardOpen(v), "\n", "\n">>
         \o make_api(v, api)
         \o <<GuardClose(v), "\n">>
  ELSE SOURCE_GEN \o fn_typedefs(api) \o api_typedef(api) \o make_api(v, api)

\* What the interpreter prints when an assertion of parse_definition ends the
\* process: one frame per call, each with its source line, then the name of
\* the exception.  (The assertions carry no message.)
Traceback(v) ==
  LET at(line, fn) ==
        <<"  File \"" \o (IF v = "scripts" THEN "scripts/generate_native.py"
                           ELSE "cli/native.py")
             \o "\", line " \o line \o ", in " \o fn, "\n">>
  IN <<"Traceback (most recent call last):", "\n">>
       \o at(IF v = "scripts" THEN "161" ELSE "144", "<module>")
       \o <<" ", " ", " ", " ", "generate", "(", ")", "\n">>
       \o at(IF v = "scripts" THEN "132" ELSE "126", "generate")
       \o <<" ", " ", " ", " ", "api_functions", " ", "=", " ",
            "get_api_functions", "(", ")", "\n">>
       \o at(IF v = "scripts" THEN "85" ELSE "77", "get_api_functions")
       \o <<" ", " ", " ", " ", "api_functions", ".", "append", "(",
            "parse_definition", "(", "definition", ")", ")", "\n">>
       \o at(IF v = "scripts" THEN "63" ELSE "56", "parse_definition")
       \o <<" ", " ", " ", " ", "assert", "(", "match", ")", "\n">>
       \o <<"AssertionError", "\n">>

\* What the interpreter prints when open, read or write raises: the frames,
\* then the exception with the message of the operating system.
IOTraceback(v) ==
  <<"Traceback (most recent call last):", "\n">>
    \o <<"  File \"" \o (IF v = "scripts" THEN "scripts/generate_native.py"
                          ELSE "cli/native.py")
           \o "\", line " \o (IF v = "scripts" THEN "161" ELSE "144")
           \o ", in <module>", "\n">>
    \o <<" ", " ", " ", " ", "generate", "(", ")", "\n">>
    \o <<"OSError", "\n">>

\* The two lines __main__ prints after generate returns.
generated_lines(v) ==
  IF v = "scripts"
  THEN <<"Generated: tests/native/dl/pknative.c",
         "Generated: src/libs/gen/nativeapi.h">>
  ELSE <<"Generated: modules/pknative.gen.c",
         "Generated: modules/std_dl_api.gen.h">>

---------------------------------------------------------------------------
\* The header texts a run may read.  Each declaration is given with what it
\* declares: name, ret and params are the C reading of text (name "" where
\* text declares no function).

P(type, name) == [type |-> type, name |-> name]

\* PK_PUBLIC void pkSetGlobal(PKVM* vm, int val);
DeclPlain ==
  [text |-> <<"PK_PUBLIC", " ", "void", " ", "pkSetGlobal", "(", "PKVM", "*",
              " ", "vm", ",", " ", "int", " ", "val", ")", ";">>,
   name |-> "pkSetGlobal", ret |-> <<"void">>,
   params |-> <<P(<<"PKVM", "*">>, <<"vm">>), P(<<"int">>, <<"val">>)>>]

\* PK_PUBLIC int g();
DeclEmpty ==
  [text |-> <<"PK_PUBLIC", " ", "int", " ", "g", "(", ")", ";">>,
   name |-> "g", ret |-> <<"int">>, params |-> <<>>]

\* PK_PUBLIC void* h(void);
DeclVoid ==
  [text |-> <<"PK_PUBLIC", " ", "void", "*", " ", "h", "(", "void", ")", ";">>,
   name |-> "h", ret |-> <<"void", "*">>, params |-> <<>>]

\* PK_PUBLIC int sum(int a, ...);
DeclVariadic ==
  [text |-> <<"PK_PUBLIC", " ", "int", " ", "sum", "(", "int", " ", "a", ",",
              " ", ".", ".", ".", ")", ";">>,
   name |-> "sum", ret |-> <<"int">>,
   params |-> <<P(<<"int">>, <<"a">>), P(<<".", ".", ".">>, <<>>)>>]

\* PK_PUBLIC int x;
DeclNoParen ==
  [text |-> <<"PK_PUBLIC", " ", "int", " ", "x", ";">>,
   name |-> "", ret |-> <<"int">>, params |-> <<>>]

\* PK_PUBLIC void<TAB>t(int a);
DeclTab ==
  [text |-> <<"PK_PUBLIC", " ", "void", "\t", "t", "(", "int", " ", "a", ")",
              ";">>,
   name |-> "t", ret |-> <<"void">>, params |-> <<P(<<"int">>, <<"a">>)>>]

\* PK_PUBLIC const char* m(int a,<LF>  int b);
DeclTwoLines ==
  [text |-> <<"PK_PUBLIC", " ", "const", " ", "char", "*", " ", "m", "(",
              "int", " ", "a", ",", "\n", " ", " ", "int", " ", "b", ")", ";">>,
   name |-> "m", ret |-> <<"const", " ", "char", "*">>,
   params |-> <<P(<<"int">>, <<"a">>), P(<<"int">>, <<"b">>)>>]

\* PK_PUBLIC void r(int a, void (*cb)(void));
DeclCallback ==
  [text |-> <<"PK_PUBLIC", " ", "void", " ", "r", "(", "int", " ", "a", ",",
              " ", "void", " ", "(", "*", "cb", ")", "(", "void", ")", ")",
              ";">>,
   name |-> "r", ret |-> <<"void">>,
   params |-> <<P(<<"int">>, <<"a">>),
                P(<<"void", " ", "(", "*", ")", "(", "void", ")">>, <<"cb">>)>>]

\* PK_PUBLIC void u(int);
DeclUnnamed ==
  [text |-> <<"PK_PUBLIC", " ", "void", " ", "u", "(", "int", ")", ";">>,
   name |-> "u", ret |-> <<"void">>, params |-> <<P(<<"int">>, <<>>)>>]

\* PK_PUBLIC void p( int a );
DeclPadded ==
  [text |-> <<"PK_PUBLIC", " ", "void", " ", "p", "(", " ", "int", " ", "a",
              " ", ")", ";">>,
   name |-> "p", ret |-> <<"void">>, params |-> <<P(<<"int">>, <<"a">>)>>]

\* PK_PUBLIC void p(int a);
DeclTight ==
  [text |-> <<"PK_PUBLIC", " ", "void", " ", "p", "(", "int", " ", "a", ")",
              ";">>,
   name |-> "p", ret |-> <<"void">>, params |-> <<P(<<"int">>, <<"a">>)>>]

\* PK_PUBLIC void q(int (*f)(int), int b);
DeclFnPtr ==
  [text |-> <<"PK_PUBLIC", " ", "void", " ", "q", "(", "int", " ", "(", "*",
              "f", ")", "(", "int", ")", ",", " ", "int", " ", "b", ")",
              ";">>,
   name |-> "q", ret |-> <<"void">>,
   params |-> <<P(<<"int", " ", "(", "*", ")", "(", "int", ")">>, <<"f">>),
                P(<<"int">>, <<"b">>)>>]

\* PK_PUBLIC int v( void );
DeclVoidPadded ==
  [text |-> <<"PK_PUBLIC", " ", "int", " ", "v", "(", " ", "void", " ", ")",
              ";">>,
   name |-> "v", ret |-> <<"int">>, params |-> <<>>]

\* The declarations only the runs of the parser alone read.
ParserOnly == <<DeclFnPtr, DeclVoidPadded>>

Catalogue ==
  <<DeclPlain, DeclEmpty, DeclVoid, DeclVariadic, DeclNoParen, DeclTab,
    DeclTwoLines, DeclCallback, DeclUnnamed, DeclPadded, DeclTight>>
    \o ParserOnly

\* PK_PUBLIC int early(int a);  -- written before the sentinel.
DeclEarly ==
  [text |-> <<"PK_PUBLIC", " ", "int", " ", "early", "(", "int", " ", "a",
              ")", ";">>,
   name |-> "early", ret |-> <<"int">>, params |-> <<P(<<"int">>, <<"a">>)>>]

SentinelLine == <<"/", "/", " ">> \o SENTINEL \o <<"\n">>

\* What a header holds before its declarations.
Preambles == {"sentinel", "none", "early"}

PreambleText(pre) ==
  CASE pre = "sentinel" -> SentinelLine
    [] pre = "none" -> <<"/", "/", " ", "POCKETLANG", " ", "API", "\n">>
    [] pre = "early" -> DeclEarly.text \o <<"\n">> \o SentinelLine

\* The header text: the preamble, then one declaration to a line.
HeaderText(pre, ds) ==
  PreambleText(pre)
    \o Concat([i \in 1..Len(ds) |-> Catalogue[ds[i]].text \o <<"\n">>])

DeclLists ==
  UNION {[1..n -> 1..(Len(Catalogue) - Len(ParserOnly))] : n \in 0..MaxDecls}

\* The same over the whole catalogue, for the runs of the parser alone.
ParseLists ==
  UNION {[1..n -> 1..Len(Catalogue)] : n \in 0..MaxDecls}

---------------------------------------------------------------------------
\* The test runner while the generator is the program that runs.
TestsIdle ==
  /\ runner = "none"
  /\ rt_pc = "idle"
  /\ suite_index = 0
  /\ test_index = 0
  /\ tests_failed = FALSE
  /\ returncode = 0
  /\ ran = <<>>
  /\ any_nonzero = FALSE
  /\ rt_status = -1

\* The static checker while another program is the one that runs.
CheckIdle ==
  /\ ck_file = <<>>
  /\ ck_terminated = TRUE
  /\ ck_pc = "idle"
  /\ line_no = 0
  /\ is_last_empty = FALSE
  /\ reports = <<>>
  /\ checks_failed = FALSE

---------------------------------------------------------------------------
\* One run of the generator.

Init ==
  /\ variant \in {"scripts", "cli"}
  /\ preamble \in Preambles
  /\ decls \in DeclLists
  /\ header = HeaderText(preamble, decls)
  /\ pc = "start"
  /\ api_functions = <<>>
  /\ plugin = <<>>
  /\ plugin_file = "untouched"
  /\ host = <<>>
  /\ host_file = "untouched"
  /\ stdout = <<>>
  /\ exit_status = -1
  /\ header_file = "untouched"
  /\ stderr = <<>>
  /\ run = 1
  /\ first_plugin = <<>>
  /\ first_host = <<>>
  /\ TestsIdle
  /\ CheckIdle

\* generate, line 1: get_source opens, reads and closes the header, and
\* get_api_functions returns.
Parse ==
  /\ pc = "start"
  /\ get_api_functions_ok(variant, header)
  /\ api_functions' = get_api_functions(variant, header)
  /\ header_file' = "closed"
  /\ pc' = "parsed"
  /\ UNCHANGED <<variant, header, preamble, decls, plugin, plugin_file, host,
                 host_file, stdout, exit_status, stderr, earlier, elsewhere>>

\* A generate that drops the definitions parse_definition rejects.
ParseSkipMalformed ==
  /\ pc = "start"
  /\ ~get_api_functions_ok(variant, header)
  /\ api_functions' =
       LET defs == SelectSeq(definitions(variant, header), parses)
       IN [i \in 1..Len(defs) |-> parse_definition(defs[i])]
  /\ header_file' = "closed"
  /\ pc' = "parsed"
  /\ UNCHANGED <<variant, header, preamble, decls, plugin, plugin_file, host,
                 host_file, stdout, exit_status, stderr, earlier, elsewhere>>

\* generate, line 1: an assertion of parse_definition fails; the exception
\* leaves generate and ends the process before any file is opened.
ParseAbort ==
  /\ pc = "start"
  /\ ~get_api_functions_ok(variant, header)
  /\ header_file' = "closed"
  /\ stderr' = Traceback(variant)
  /\ pc' = "aborted"
  /\ exit_status' = 1
  /\ UNCHANGED <<variant, header, preamble, decls, api_functions, plugin,
                 plugin_file, host, host_file, stdout, earlier, elsewhere>>

\* A generate whose first with-block writes the builder too.
WritePluginWithBuilder ==
  /\ pc = "parsed"
  /\ plugin' = plugin_text(variant, api_functions)
                 \o <<"\n">> \o make_api(variant, api_functions)
  /\ plugin_file' = "closed"
  /\ pc' = "plugin_written"
  /\ UNCHANGED <<variant, header, preamble, decls, api_functions, host,
                 host_file, stdout, exit_status, header_file,
                 stderr, earlier, elsewhere>>

\* A generate whose first with-block opens its file for appending.
WritePluginAppending ==
  /\ pc = "parsed"
  /\ plugin' = plugin \o plugin_text(variant, api_functions)
  /\ plugin_file' = "closed"
  /\ pc' = "plugin_written"
  /\ UNCHANGED <<variant, header, preamble, decls, api_functions, host,
                 host_file, stdout, exit_status, header_file,
                 stderr, earlier, elsewhere>>

\* A generate whose first with-block empties the list it emits from.
WritePluginConsuming ==
  /\ pc = "parsed"
  /\ plugin' = plugin_text(variant, api_functions)
  /\ api_functions' = <<>>
  /\ plugin_file' = "closed"
  /\ pc' = "plugin_written"
  /\ UNCHANGED <<variant, header, preamble, decls, host,
                 host_file, stdout, exit_status, header_file,
                 stderr, earlier, elsewhere>>

\* The first with-block: open (truncate), five writes, close.
WritePlugin ==
  /\ pc = "parsed"
  /\ plugin' = plugin_text(variant, api_functions)
  /\ plugin_file' = "closed"
  /\ pc' = "plugin_written"
  /\ UNCHANGED <<variant, header, preamble, decls, api_functions, host,
                 host_file, stdout, exit_status, header_file,
                 stderr, earlier, elsewhere>>

\* A generate whose second with-block emits from a list that lost its head.
WriteHostFromTail ==
  /\ pc = "plugin_written"
  /\ host' = host_text(variant, SubSeq(api_functions, 2, Len(api_functions)))
  /\ host_file' = "closed"
  /\ pc' = "host_written"
  /\ UNCHANGED <<variant, header, preamble, decls, api_functions, plugin,
                 plugin_file, stdout, exit_status, header_file,
                 stderr, earlier, elsewhere>>

\* A generate that reads and parses the header again for its second
\* with-block.
WriteHostRereading ==
  /\ pc = "plugin_written"
  /\ get_api_functions_ok(variant, header)
  /\ host' = host_text(variant, get_api_functions(variant, header))
  /\ host_file' = "closed"
  /\ pc' = "host_written"
  /\ UNCHANGED <<variant, header, preamble, decls, api_functions, plugin,
                 plugin_file, stdout, exit_status, header_file,
                 stderr, earlier, elsewhere>>

\* The second with-block: open (truncate), the writes, close.
WriteHost ==
  /\ pc = "plugin_written"
  /\ host' = host_text(variant, api_functions)
  /\ host_file' = "closed"
  /\ pc' = "host_written"
  /\ UNCHANGED <<variant, header, preamble, decls, api_functions, plugin,
                 plugin_file, stdout, exit_status, header_file,
                 stderr, earlier, elsewhere>>

\* A __main__ that prints once the first artifact is written.
ReportAfterPlugin ==
  /\ pc = "plugin_written"
  /\ stdout' = stdout \o generated_lines(variant)
  /\ exit_status' = 0
  /\ pc' = "done"
  /\ UNCHANGED <<variant, header, preamble, decls, api_functions, plugin,
                 plugin_file, host, host_file, header_file,
                 stderr, earlier, elsewhere>>

\* __main__ after generate: the two prints, then the normal exit.
Report ==
  /\ pc = "host_written"
  /\ stdout' = stdout \o generated_lines(variant)
  /\ exit_status' = 0
  /\ pc' = "done"
  /\ UNCHANGED <<variant, header, preamble, decls, api_functions, plugin,
                 plugin_file, host, host_file, header_file,
                 stderr, earlier, elsewhere>>

Next == Parse \/ ParseAbort \/ WritePlugin \/ WriteHost \/ Report

Spec == Init /\ [][Next]_vars

---------------------------------------------------------------------------
\* Runs in which the operating system refuses an open, a read or a write.
\* The raised exception leaves generate and ends the process.

\* get_source: open raises; no file was opened.
HeaderOpenFails ==
  /\ pc = "start"
  /\ header_file' = "untouched"
  /\ stderr' = IOTraceback(variant)
  /\ pc' = "aborted"
  /\ exit_status' = 1
  /\ UNCHANGED <<variant, header, preamble, decls, api_functions, plugin,
                 plugin_file, host, host_file, stdout, earlier, elsewhere>>

\* get_source: f.read() raises; f.close() on the next line is not reached.
HeaderReadFails ==
  /\ pc = "start"
  /\ header_file' = "open"
  /\ stderr' = IOTraceback(variant)
  /\ pc' = "aborted"
  /\ exit_status' = 1
  /\ UNCHANGED <<variant, header, preamble, decls, api_functions, plugin,
                 plugin_file, host, host_file, stdout, earlier, elsewhere>>

\* The first with-block: open raises; the file is left as it was.
PluginOpenFails ==
  /\ pc = "parsed"
  /\ stderr' = IOTraceback(variant)
  /\ pc' = "aborted"
  /\ exit_status' = 1
  /\ UNCHANGED <<variant, header, preamble, decls, api_functions, plugin,
                 plugin_file, host, host_file, stdout, header_file, earlier, elsewhere>>

\* The first with-block: open truncates, k writes succeed, the next raises;
\* the with statement closes the file on the way out.
PluginWriteFails ==
  /\ pc = "parsed"
  /\ \E k \in 0..(Len(plugin_writes(variant, api_functions)) - 1) :
       plugin' = Concat(SubSeq(plugin_writes(variant, api_functions), 1, k))
  /\ plugin_file' = "closed"
  /\ stderr' = IOTraceback(variant)
  /\ pc' = "aborted"
  /\ exit_status' = 1
  /\ UNCHANGED <<variant, header, preamble, decls, api_functions, host,
                 host_file, stdout, header_file, earlier, elsewhere>>

\* The second with-block: open raises; the file is left as it was.
HostOpenFails ==
  /\ pc = "plugin_written"
  /\ stderr' = IOTraceback(variant)
  /\ pc' = "aborted"
  /\ exit_status' = 1
  /\ UNCHANGED <<variant, header, preamble, decls, api_functions, plugin,
                 plugin_file, host, host_file, stdout, header_file, earlier, elsewhere>>

\* The second with-block: open truncates, k writes succeed, the next raises;
\* the with statement closes the file on the way out.
HostWriteFails ==
  /\ pc = "plugin_written"
  /\ \E k \in 0..(Len(host_writes(variant, api_functions)) - 1) :
       host' = Concat(SubSeq(host_writes(variant, api_functions), 1, k))
  /\ host_file' = "closed"
  /\ stderr' = IOTraceback(variant)
  /\ pc' = "aborted"
  /\ exit_status' = 1
  /\ UNCHANGED <<variant, header, preamble, decls, api_functions, plugin,
                 plugin_file, stdout, header_file, earlier, elsewhere>>

NextIO ==
  \/ Next
  \/ HeaderOpenFails \/ HeaderReadFails
  \/ PluginOpenFails \/ PluginWriteFails
  \/ HostOpenFails \/ HostWriteFails

SpecIO == Init /\ [][NextIO]_vars

---------------------------------------------------------------------------
\* The generator started a second time over the same header, the artifacts
\* of the first run still in place.

Rerun ==
  /\ pc = "done"
  /\ run = 1
  /\ run' = 2
  /\ first_plugin' = plugin
  /\ first_host' = host
  /\ pc' = "start"
  /\ api_functions' = <<>>
  /\ plugin_file' = "untouched"
  /\ host_file' = "untouched"
  /\ header_file' = "untouched"
  /\ stdout' = <<>>
  /\ stderr' = <<>>
  /\ exit_status' = -1
  /\ UNCHANGED <<variant, header, preamble, decls, plugin, host, elsewhere>>

NextRerun == Next \/ Rerun

SpecRerun == Init /\ [][NextRerun]_vars

---------------------------------------------------------------------------
\* A run beside another process that rewrites the header file: once, before
\* the run has written its second artifact, the file gains the declaration
\* "PK_PUBLIC int early(int a);" as its last line.

ModifyHeader ==
  /\ pc \in {"start", "parsed", "plugin_written"}
  /\ header = HeaderText(preamble, decls)
  /\ header' = header \o DeclEarly.text \o <<"\n">>
  /\ UNCHANGED <<variant, preamble, decls, pc, api_functions, plugin,
                 plugin_file, host, host_file, stdout, exit_status,
                 header_file, stderr, earlier, elsewhere>>

NextConcurrent == Next \/ ModifyHeader

SpecConcurrent == Init /\ [][NextConcurrent]_vars

---------------------------------------------------------------------------
\* The parser alone: get_api_functions over the headers of the whole
\* catalogue, the run followed up to the return or the failed assertion.

InitParse ==
  /\ variant \in {"scripts", "cli"}
  /\ preamble = "sentinel"
  /\ decls \in ParseLists
  /\ header = HeaderText(preamble, decls)
  /\ pc = "start"
  /\ api_functions = <<>>
  /\ plugin = <<>>
  /\ plugin_file = "untouched"
  /\ host = <<>>
  /\ host_file = "untouched"
  /\ stdout = <<>>
  /\ exit_status = -1
  /\ header_file = "untouched"
  /\ stderr = <<>>
  /\ run = 1
  /\ first_plugin = <<>>
  /\ first_host = <<>>
  /\ TestsIdle
  /\ CheckIdle

NextParse == Parse \/ ParseAbort

SpecParse == InitParse /\ [][NextParse]_vars

---------------------------------------------------------------------------
\* Reading an artifact back, line by line.

\* text.split('\n')
Lines(text) == Split(text, "\n")

\* The index of the first line of ls from position from on that satisfies
\* test, or 0.
FirstLine(ls, test(_), from) ==
  LET hits == {i \in from..Len(ls) : test(ls[i])}
  IN IF hits = {} THEN 0 ELSE CHOOSE i \in hits : \A j \in hits : i <= j

\* The index of the first line of ls equal to line from position from on,
\* or 0.
LineIndexFrom(ls, line, from) == FirstLine(ls, LAMBDA l : l = line, from)

LineIndex(ls, line) == LineIndexFrom(ls, line, 1)

\* How many lines of ls satisfy test.
CountLines(ls, test(_)) == Cardinality({i \in 1..Len(ls) : test(ls[i])})

StructOpenLine == <<"typedef struct {">>
StructCloseLine == <<"} PkNativeApi;">>

\* Whether ls holds the banner's last line, then a struct.
HasStruct(ls) ==
  /\ LineIndex(ls, <<GENERATED_MARK>>) # 0
  /\ LineIndex(ls, StructOpenLine) > LineIndex(ls, <<GENERATED_MARK>>) + 2
  /\ LineIndex(ls, StructCloseLine) > LineIndex(ls, StructOpenLine)

\* The lines after the banner (and its empty line) up to the struct: the
\* typedefs and the empty line that ends them.
TypedefBlock(ls) ==
  SubSeq(ls, LineIndex(ls, <<GENERATED_MARK>>) + 2,
         LineIndex(ls, StructOpenLine) - 1)

\* The typedef lines alone.
TypedefLines(ls) ==
  SubSeq(ls, LineIndex(ls, <<GENERATED_MARK>>) + 2,
         LineIndex(ls, StructOpenLine) - 2)

\* From "typedef struct {" to "} PkNativeApi;", both included.
StructText(ls) ==
  SubSeq(ls, LineIndex(ls, StructOpenLine), LineIndex(ls, StructCloseLine))

\* The field lines of the struct.
FieldLines(ls) ==
  SubSeq(ls, LineIndex(ls, StructOpenLine) + 1,
         LineIndex(ls, StructCloseLine) - 1)

\* The name a typedef line defines: what follows " (*".
TypedefName(line) == line[PyFind(line, <<" (*">>) + 2]

\* The first line of the initializer, as a line of either variant.
IsInitHead(line) ==
  line \in {<<"PK_EXPORT void pkInitApi(PkNativeApi* api) {">>,
            <<"void pkInitApi(PkNativeApi* api) {">>}

InitHeadIndex(ls) == FirstLine(ls, IsInitHead, 1)

\* The lines of the initializer's body.
InitBody(ls) ==
  LET h == InitHeadIndex(ls)
  IN SubSeq(ls, h + 1, LineIndexFrom(ls, <<"}">>, h + 1) - 1)

\* The lines after the initializer and its empty line: the forwarders.
ForwarderLines(ls) ==
  LET h == InitHeadIndex(ls)
  IN SubSeq(ls, LineIndexFrom(ls, <<"}">>, h + 1) + 2, Len(ls) - 1)

\* Whether a line is the one statement of a forwarder.
IsForwarderCall(line) ==
  /\ Len(line) >= 3
  /\ line[1] \in {"  pk_api.", "  return pk_api."}
  /\ line[3] = "("

IsGuardOpen(line) ==
  line \in {<<"#ifdef PK_DL_IMPLEMENT">>,
            <<"#if defined(NATIVE_API_IMPLEMENT)">>}

IsIfLine(line) == IsGuardOpen(line) \/ line = <<"#ifndef PK_AMALGAMATED">>

IsEndifLine(line) ==
  line \in {<<"#endif">>, <<"#endif // PK_DL_IMPLEMENT">>,
            <<"#endif // NATIVE_API_IMPLEMENT">>}

IsBuilderHead(line) ==
  line \in {<<"PkNativeApi pkMakeNativeAPI() {">>,
            <<"PkNativeApi dlMakeApi() {">>}

IsBuilderLine(line) ==
  \/ IsBuilderHead(line)
  \/ IsGuardOpen(line)
  \/ line = <<"  return api;">>
  \/ (line # <<>> /\ line[1] = "  api.")

IsInitLine(line) ==
  IsInitHead(line) \/ line = <<"static PkNativeApi pk_api;">>

\* The declarations of the scan region, as indices into Catalogue.
Scanned == IF preamble = "none" THEN <<>> ELSE decls

HasOtherSpace(d) ==
  \E k \in 1..Len(d.text) : d.text[k] \in Whitespace \ {" ", "\n"}

IsVariadic(d) == Contains(d.text, <<".", ".", ".">>)

\* The scanned declarations without those holding a tab and, in the scripts
\* variant, without the variadic ones.
Kept ==
  SelectSeq(Scanned, LAMBDA i :
    /\ ~HasOtherSpace(Catalogue[i])
    /\ ~(variant = "scripts" /\ IsVariadic(Catalogue[i])))

Untouched == plugin_file = "untouched" /\ host_file = "untouched"

Aborted == pc = "aborted" /\ exit_status = 1 /\ Untouched

PluginWritten == pc \in {"plugin_written", "host_written", "done"}
HostWritten == pc \in {"host_written", "done"}

---------------------------------------------------------------------------
\* The claims.

\* C1: once both artifacts are written, the typedef block and the struct
\* text of the plugin artifact equal, line for line, those of the host
\* artifact.
C1_SameLayoutInBothArtifacts ==
  HostWritten =>
    LET pl == Lines(plugin)
        hl == Lines(host)
    IN /\ HasStruct(pl)
       /\ HasStruct(hl)
       /\ TypedefBlock(pl) = TypedefBlock(hl)
       /\ StructText(pl) = StructText(hl)

\* C1 witness: both artifacts written from two signatures of different names.
C1_Witness ==
  /\ pc = "done"
  /\ Len(api_functions) = 2
  /\ api_functions[1].fn # api_functions[2].fn
  /\ Len(FieldLines(Lines(host))) = 2

\* C2 as claimed: of a header without the sentinel neither artifact is ever
\* opened or written, and the run never ends with status 0.
C2_NoSentinelIsFatal ==
  ~Contains(header, SENTINEL) => (Untouched /\ exit_status # 0)

TypedefAndFieldPerSignature(ls, api) ==
  LET tl == TypedefLines(ls)
      fl == FieldLines(ls)
  IN /\ Len(tl) = Len(api)
     /\ Len(fl) = Len(api)
     /\ \A i \in 1..Len(api) :
          /\ tl[i][1] = "typedef "
          /\ TypedefName(tl[i]) = api[i].fn \o "_t"
          /\ fl[i] = <<"  ", api[i].fn \o "_t", " ", api[i].fn \o "_ptr", ";">>

\* C4: N signatures give exactly N typedef lines and N struct fields in
\* either artifact; the i-th typedef defines <name>_t and the i-th field is
\* "<name>_t <name>_ptr;" of the i-th signature, and the signatures follow
\* the order of the declarations in the header.
C4_OneTypedefAndFieldPerSignature ==
  pc = "done" =>
    /\ TypedefAndFieldPerSignature(Lines(plugin), api_functions)
    /\ TypedefAndFieldPerSignature(Lines(host), api_functions)
    /\ Len(api_functions) = Len(Kept)
    /\ \A i \in 1..Len(Kept) : api_functions[i].fn = Catalogue[Kept[i]].name

\* C4 witness: a finished run over two declarations of different names.
C4_Witness ==
  /\ pc = "done"
  /\ Len(Kept) = 2
  /\ Catalogue[Kept[1]].name # Catalogue[Kept[2]].name
  /\ Len(TypedefLines(Lines(plugin))) = 2

\* Whether every parameter d declares is a named one.
AllNamed(d) ==
  ~IsVariadic(d) /\ \A k \in 1..Len(d.params) : d.params[k].name # <<>>

\* typedef R (*f_t)(T1, ..., Tk); of a declaration.
DeclaredTypedef(d) ==
  <<"typedef ">> \o d.ret \o <<" (*", d.name \o "_t", ")(">>
    \o Join([k \in 1..Len(d.params) |-> d.params[k].type], <<", ">>)
    \o <<");">>

\* C5 as claimed: the typedef of every declaration with named parameters
\* lists the declared types in order, the names dropped.
C5_TypedefListsDeclaredTypes ==
  pc = "done" =>
    LET tl == TypedefLines(Lines(plugin))
    IN \A k \in 1..Len(Kept) :
         AllNamed(Catalogue[Kept[k]]) =>
           tl[k] = DeclaredTypedef(Catalogue[Kept[k]])

\* The first line of the forwarder of a signature.
ExpectedForwarderHead(sig) ==
  sig.ret \o <<" ", sig.fn, "(">>
    \o Join([k \in 1..Len(sig.params) |->
               sig.params[k].type \o <<" ">> \o sig.params[k].name], <<", ">>)
    \o <<") {">>

\* The one statement of the forwarder of a signature.
ExpectedForwarderCall(sig) ==
  <<IF sig.ret = <<"void">> THEN "  pk_api." ELSE "  return pk_api.",
    sig.fn \o "_ptr", "(">>
    \o Join([k \in 1..Len(sig.params) |-> sig.params[k].name], <<", ">>)
    \o <<");">>

\* C6: the plugin artifact holds, per signature and in order, a function of
\* the signature's return type, name and parameters whose body is the one
\* call through pk_api.<name>_ptr with the parameter names, with "return"
\* exactly when the return type is not "void".
C6_ForwarderPerSignature ==
  PluginWritten =>
    LET fl == ForwarderLines(Lines(plugin))
        N == Len(api_functions)
    IN /\ Len(fl) = (IF N = 0 THEN 0 ELSE 4 * N - 1)
       /\ \A i \in 1..N :
            /\ fl[4 * i - 3] = ExpectedForwarderHead(api_functions[i])
            /\ fl[4 * i - 2] = ExpectedForwarderCall(api_functions[i])
            /\ fl[4 * i - 1] = <<"}">>
            /\ i < N => fl[4 * i] = <<>>

\* C6 witness: a written plugin artifact with a void* function (returns) and
\* a void function of two parameters (does not).
C6_Witness ==
  /\ pc = "done"
  /\ \E i \in 1..Len(api_functions) : api_functions[i].ret = <<"void", "*">>
  /\ \E i \in 1..Len(api_functions) :
       /\ api_functions[i].ret = <<"void">>
       /\ Len(api_functions[i].params) = 2
       /\ ForwarderLines(Lines(plugin))[4 * i - 2][1] = "  pk_api."

\* C7: the body of pkInitApi holds exactly one line
\* "pk_api.<name>_ptr = api-><name>_ptr;" per signature, in order, and these
\* are the fields of the struct, each assigned.
C7_InitAssignsEveryField ==
  PluginWritten =>
    LET pl == Lines(plugin)
        body == InitBody(pl)
        fl == FieldLines(pl)
        N == Len(api_functions)
    IN /\ InitHeadIndex(pl) # 0
       /\ Len(body) = N
       /\ Len(fl) = N
       /\ \A i \in 1..N :
            /\ body[i] = <<"  pk_api.", api_functions[i].fn \o "_ptr",
                           " = api->", api_functions[i].fn \o "_ptr", ";">>
            /\ fl[i][4] = body[i][2]

\* C7 witness: an initializer of two assignments.
C7_Witness ==
  /\ pc = "plugin_written"
  /\ Len(InitBody(Lines(plugin))) = 2
  /\ InitBody(Lines(plugin))[1] # InitBody(Lines(plugin))[2]

\* C8: the host artifact's builder takes no argument and returns a
\* PkNativeApi, holds exactly one line "api.<name>_ptr = <name>;" per
\* signature in the order of the struct fields, and lies between the build
\* flag's guard and the #endif that closes it.
C8_GuardedBuilder ==
  HostWritten =>
    LET ls == Lines(host)
        N == Len(api_functions)
        open == FirstLine(ls, IsGuardOpen, 1)
        head == FirstLine(ls, IsBuilderHead, 1)
        ret == LineIndexFrom(ls, <<"  return api;">>, head + 1)
        close == LineIndexFrom(ls, <<"}">>, ret + 1)
        endif == FirstLine(ls, IsEndifLine, open + 1)
        assigns == SubSeq(ls, head + 4, ret - 2)
        fl == FieldLines(ls)
    IN /\ 0 < open /\ open < head /\ head < ret /\ ret < close
       /\ close < endif
       /\ \A i \in (open + 1)..(endif - 1) : ~IsIfLine(ls[i])
       /\ ls[head + 2] = <<"  PkNativeApi api;">>
       /\ Len(assigns) = N
       /\ Len(fl) = N
       /\ \A i \in 1..N :
            /\ assigns[i] = <<"  api.", api_functions[i].fn \o "_ptr", " = ",
                              api_functions[i].fn, ";">>
            /\ fl[i][4] = assigns[i][2]

\* C8 witness: a builder of two assignments.
C8_Witness ==
  /\ pc = "host_written"
  /\ Len(api_functions) = 2
  /\ api_functions[1].fn # api_functions[2].fn
  /\ FirstLine(Lines(host), IsBuilderHead, 1) # 0

\* C9: after a successful run the plugin artifact holds the typedefs, the
\* struct, the initializer and one forwarder per signature and nothing of
\* the builder; the host artifact holds the typedefs, the struct and the
\* builder and neither a forwarder nor the initializer.
C9_ArtifactContents ==
  pc = "done" =>
    LET N == Len(api_functions)
        pl == Lines(plugin)
        hl == Lines(host)
    IN /\ HasStruct(pl) /\ Len(TypedefLines(pl)) = N
       /\ CountLines(pl, IsInitHead) = 1
       /\ CountLines(pl, IsForwarderCall) = N
       /\ CountLines(pl, IsBuilderLine) = 0
       /\ HasStruct(hl) /\ Len(TypedefLines(hl)) = N
       /\ CountLines(hl, IsBuilderHead) = 1
       /\ CountLines(hl, IsGuardOpen) = 1
       /\ CountLines(hl, IsInitLine) = 0
       /\ CountLines(hl, IsForwarderCall) = 0

\* C9 witness: a successful run over two signatures.
C9_Witness ==
  /\ pc = "done"
  /\ exit_status = 0
  /\ Len(api_functions) = 2
  /\ CountLines(Lines(plugin), IsForwarderCall) = 2

\* Whether the parameter list of d is "()" or "(void)".
DeclaresNoParams(d) ==
  /\ d.name # ""
  /\ \/ Contains(d.text, <<d.name, "(", ")">>)
     \/ Contains(d.text, <<d.name, "(", "void", ")">>)

\* C10: a declaration whose parameter list is "()" or "(void)" parses to a
\* signature of no parameters, and its typedef and its forwarder are written
\* with an empty argument list.
C10_NoParamsIsEmptyList ==
  pc \in {"parsed", "plugin_written", "host_written", "done"} =>
    \A k \in 1..Len(Kept) :
      DeclaresNoParams(Catalogue[Kept[k]]) =>
        LET d == Catalogue[Kept[k]]
            pl == Lines(plugin)
        IN /\ k <= Len(api_functions)
           /\ api_functions[k].params = <<>>
           /\ pc = "done" =>
                /\ TypedefLines(pl)[k]
                     = <<"typedef ">> \o d.ret
                         \o <<" (*", d.name \o "_t", ")(", ");">>
                /\ ForwarderLines(pl)[4 * k - 3]
                     = d.ret \o <<" ", d.name, "(", ") {">>
                /\ SubSeq(ForwarderLines(pl)[4 * k - 2], 2, 4)
                     = <<d.name \o "_ptr", "(", ");">>

\* C10 witness: a finished run over "int g()" and "void* h(void)".
C10_Witness ==
  /\ pc = "done"
  /\ Len(Kept) = 2
  /\ Catalogue[Kept[1]].name = "g"
  /\ Catalogue[Kept[2]].name = "h"
  /\ api_functions[2].params = <<>>

\* Whether text holds the name of a function as the code emits it: the name
\* itself, its typedef <name>_t or its field <name>_ptr.
Mentions(text, name) ==
  \E k \in 1..Len(text) : text[k] \in {name, name \o "_t", name \o "_ptr"}

\* The declarations of the header that hold no "...".
NotVariadic == SelectSeq(decls, LAMBDA i : ~IsVariadic(Catalogue[i]))

\* C11: in the scripts variant a declaration holding "..." neither aborts
\* the run nor shows in an artifact: the run aborts exactly when the header
\* without its variadic declarations makes it abort, the signatures (when the
\* parser returns) and both artifacts (when both are written) are those of
\* that header, every other declaration that became a signature is named in
\* both artifacts, and the name of the variadic
\* declaration is in no typedef, field, forwarder or assignment.
C11_VariadicSkipped ==
  variant = "scripts" =>
    LET h == HeaderText(preamble, NotVariadic)
        api == get_api_functions(variant, h)
    IN /\ pc = "aborted" => ~get_api_functions_ok(variant, h)
       /\ pc = "parsed" =>
            /\ get_api_functions_ok(variant, h)
            /\ api_functions = api
       /\ pc = "host_written" =>
            /\ plugin = plugin_text(variant, api)
            /\ host = host_text(variant, api)
       /\ PluginWritten =>
            /\ \A k \in 1..Len(Kept) : Mentions(plugin, Catalogue[Kept[k]].name)
            /\ \A k \in 1..Len(decls) :
                 IsVariadic(Catalogue[decls[k]]) =>
                   ~Mentions(plugin, Catalogue[decls[k]].name)
       /\ HostWritten =>
            /\ \A k \in 1..Len(Kept) : Mentions(host, Catalogue[Kept[k]].name)
            /\ \A k \in 1..Len(decls) :
                 IsVariadic(Catalogue[decls[k]]) =>
                   ~Mentions(host, Catalogue[decls[k]].name)

\* C11 witness: a finished scripts run over "PK_PUBLIC int sum(int a, ...);"
\* and one more declaration, which alone became a signature.
C11_Witness ==
  /\ variant = "scripts"
  /\ pc = "done"
  /\ preamble = "sentinel"
  /\ Len(decls) = 2
  /\ \E k \in 1..2 : IsVariadic(Catalogue[decls[k]])
  /\ Len(api_functions) = 1
  /\ Mentions(host, api_functions[1].fn)

\* The tokens of a declaration: its lexemes without the white space.
Tokens(d) == SelectSeq(d.text, LAMBDA t : t \notin Whitespace)

\* Whether the scan and the skip of "..." keep a declaration.
IsKept(d) ==
  ~HasOtherSpace(d) /\ ~(variant = "scripts" /\ IsVariadic(d))

\* The signature the k-th scanned declaration became, as a list of one, or
\* the empty list where it became none.
SignatureOf(k) ==
  IF IsKept(Catalogue[Scanned[k]])
  THEN <<api_functions[Len(SelectSeq(SubSeq(Scanned, 1, k),
                                     LAMBDA i : IsKept(Catalogue[i])))]>>
  ELSE <<>>

\* C12 as claimed: two declarations of a header that differ only in the
\* white space between their tokens become the same signature.
C12_WhitespaceInsensitive ==
  pc \notin {"start", "aborted"} =>
    \A i, j \in 1..Len(Scanned) :
      Tokens(Catalogue[Scanned[i]]) = Tokens(Catalogue[Scanned[j]])
        => SignatureOf(i) = SignatureOf(j)

\* C13: a second run over the same header, started with the artifacts of
\* the first run in place, writes a plugin artifact and a host artifact
\* equal, lexeme for lexeme, to those the first run wrote.
C13_SecondRunWritesTheSame ==
  run = 2 =>
    /\ PluginWritten => plugin = first_plugin
    /\ HostWritten => host = first_host

\* C13 witness: a second run that finished, over a header of two
\* declarations of different names that both became signatures.
C13_Witness ==
  /\ run = 2
  /\ pc = "done"
  /\ Len(api_functions) = 2
  /\ api_functions[1].fn # api_functions[2].fn
  /\ Len(first_host) > Len(SOURCE_GEN)
  /\ Len(first_plugin) > Len(SOURCE_GEN)

\* Whether no two struct fields of an artifact have the same name.
FieldsDistinct(ls) ==
  LET fl == FieldLines(ls)
  IN \A i, j \in 1..Len(fl) : fl[i][4] = fl[j][4] => i = j

\* C14 as claimed: a header in which two declarations that reach the parser
\* declare the same function name is rejected (neither artifact is ever
\* opened and the run never ends with status 0), and no written artifact has
\* two struct fields of one name.
C14_DuplicateNamesRejected ==
  /\ (\E i, j \in 1..Len(Kept) :
        /\ i < j
        /\ Catalogue[Kept[i]].name # ""
        /\ Catalogue[Kept[i]].name = Catalogue[Kept[j]].name)
       => (Untouched /\ exit_status # 0)
  /\ PluginWritten => FieldsDistinct(Lines(plugin))
  /\ HostWritten => FieldsDistinct(Lines(host))

\* Whether an artifact holds everything its with-block writes.
PluginComplete == plugin = plugin_text(variant, api_functions)
HostComplete == host = host_text(variant, api_functions)

\* C15 as claimed: after a run that aborted, an artifact the run opened
\* holds its whole text; in particular the plugin artifact is never complete
\* beside a host artifact that was opened and lacks its tail.
C15_NoPartialArtifact ==
  pc = "aborted" =>
    /\ plugin_file # "untouched" => PluginComplete
    /\ host_file # "untouched" => HostComplete
    /\ ~(/\ plugin_file # "untouched" /\ PluginComplete
         /\ host_file # "untouched" /\ ~HostComplete)

\* The line that ends the comment block, and the line of the mark.
BlockEnd(ls) == LineIndex(ls, <<" */">>)
MarkLine(ls) == LineIndex(ls, <<GENERATED_MARK>>)

\* The leading lines of an artifact up to and including the mark.
Leading(ls) == SubSeq(ls, 1, MarkLine(ls))

\* The lines between the comment block and the mark.
Includes(ls) == SubSeq(ls, BlockEnd(ls) + 1, MarkLine(ls) - 1)

IncludeLine == <<"#include <pocketlang.h>">>

\* C16 as claimed: the leading text of the plugin artifact up to and
\* including the line of the mark equals that of the host artifact.
C16_IdenticalLeadingText ==
  HostWritten => Leading(Lines(plugin)) = Leading(Lines(host))

\* C16 amended: both artifacts begin with the same comment block, "/*" to
\* " */", and hold the line of the mark once, after the block and followed
\* by an empty line; between the two stand only the include of pocketlang.h
\* and empty lines in the plugin artifact, and in the host artifact of the
\* scripts variant the same include inside #ifndef PK_AMALGAMATED / #endif.
\* In the cli variant the whole leading text is the same in both artifacts.
C16_IdenticalCommentBlockAndMark ==
  HostWritten =>
    LET pl == Lines(plugin)
        hl == Lines(host)
    IN /\ pl[1] = <<"/*">>
       /\ BlockEnd(pl) > 1
       /\ BlockEnd(hl) = BlockEnd(pl)
       /\ SubSeq(pl, 1, BlockEnd(pl)) = SubSeq(hl, 1, BlockEnd(hl))
       /\ MarkLine(pl) > BlockEnd(pl)
       /\ MarkLine(hl) > BlockEnd(hl)
       /\ CountLines(pl, LAMBDA l : l = <<GENERATED_MARK>>) = 1
       /\ CountLines(hl, LAMBDA l : l = <<GENERATED_MARK>>) = 1
       /\ pl[MarkLine(pl) + 1] = <<>>
       /\ hl[MarkLine(hl) + 1] = <<>>
       /\ Includes(pl) = <<<<>>, IncludeLine, <<>>>>
       /\ variant = "cli" => Leading(pl) = Leading(hl)
       /\ variant = "scripts" =>
            Includes(hl) = <<<<>>, <<"#ifndef PK_AMALGAMATED">>, IncludeLine,
                             <<"#endif">>, <<>>, <<>>>>

\* C16 witness: both artifacts of a scripts run written, their comment
\* blocks equal and their include lines different.
C16_Witness ==
  /\ variant = "scripts"
  /\ pc = "host_written"
  /\ Len(api_functions) = 1
  /\ Includes(Lines(plugin)) # Includes(Lines(host))
  /\ BlockEnd(Lines(plugin)) = BlockEnd(Lines(host))

\* C17: whenever standard output holds anything, it holds the two
\* "Generated: <path>" lines and nothing else, both artifacts are closed and
\* hold their whole text, and the run has finished; a run that aborted, in
\* the parser or in an open, a read or a write, has printed nothing there.
C17_ReportedOnlyAfterBothWritten ==
  /\ stdout # <<>> =>
       /\ stdout = generated_lines(variant)
       /\ pc = "done"
       /\ plugin_file = "closed" /\ PluginComplete
       /\ host_file = "closed" /\ HostComplete
  /\ pc = "aborted" => stdout = <<>>
  /\ pc = "done" => stdout = generated_lines(variant)

\* C17 witness: a finished run that printed its two lines after writing both
\* artifacts from one signature.
C17_Witness ==
  /\ pc = "done"
  /\ Len(stdout) = 2
  /\ Len(api_functions) = 1
  /\ host_file = "closed"
  /\ Len(host) > Len(SOURCE_GEN)

\* C18 as claimed: between the steps of a run, and after its last, none of
\* the header, the plugin artifact and the host artifact is open.
C18_NoFileLeftOpen ==
  /\ header_file # "open"
  /\ plugin_file # "open"
  /\ host_file # "open"

\* C19 as claimed: a run that aborted on a malformed declaration has exited
\* with a nonzero status, and what it printed on standard error holds the
\* text of a declaration parse_definition rejected.
C19_DiagnosticHoldsDeclaration ==
  pc = "aborted" =>
    LET defs == definitions(variant, header)
    IN /\ exit_status # 0
       /\ \E i \in 1..Len(defs) :
            ~parses(defs[i]) /\ Contains(stderr, defs[i])

\* C20 as claimed: a cli run over a header whose scan region holds a
\* declaration with "..." never opens an artifact and never ends with status
\* 0 (the parse of that declaration fails), and neither artifact names the
\* variadic function in a typedef, a field or a forwarder.
C20_CliRejectsVariadic ==
  (/\ variant = "cli"
   /\ \E k \in 1..Len(Scanned) : IsVariadic(Catalogue[Scanned[k]]))
    => /\ Untouched
       /\ exit_status # 0
       /\ \A k \in 1..Len(Scanned) :
            IsVariadic(Catalogue[Scanned[k]]) =>
              /\ ~Mentions(plugin, Catalogue[Scanned[k]].name)
              /\ ~Mentions(host, Catalogue[Scanned[k]].name)

\* Whether the signature list is, name for name and in order, that of the
\* declarations ds.
NamesAre(ds) ==
  /\ Len(api_functions) = Len(ds)
  /\ \A k \in 1..Len(ds) : api_functions[k].fn = Catalogue[ds[k]].name

\* The declarations after the sentinel that the variant is meant to parse:
\* all of them but, in the scripts variant, those holding "...".
Unskipped ==
  SelectSeq(Scanned, LAMBDA i :
    ~(variant = "scripts" /\ IsVariadic(Catalogue[i])))

CountChar(d, c, a, b) == Cardinality({k \in a..b : d[k] = c})

\* The text between the first "(" of a definition and the ")" that closes
\* it: the first position after it where as many ")" as "(" have been read.
BalancedParams(d) ==
  LET open == PyFind(d, <<"(">>) + 1
      closes == {j \in (open + 1)..Len(d) :
                   CountChar(d, "(", open, j) = CountChar(d, ")", open, j)}
      close == CHOOSE j \in closes : \A o \in closes : j <= o
  IN SubSeq(d, open + 1, close - 1)

\* Whether parse_definition takes its branch "No parameters".
NoParametersBranch(d) ==
  Contains(d, <<"(", ")">>) \/ Contains(d, <<"(", "void", ")">>)

\* C22 as claimed: the parameters of every signature that went through the
\* split are the pieces, split at "," and each at its last space, of the
\* text between the declaration's first "(" and the ")" that matches it.
C22_SplitsBalancedParamText ==
  pc = "parsed" =>
    \A k \in 1..Len(api_functions) :
      LET d == definitions(variant, header)[k]
          pieces == Split(BalancedParams(d), ",")
      IN ~NoParametersBranch(d) =>
           api_functions[k].params =
             [i \in 1..Len(pieces) |-> parse_param(pieces[i])]

\* C23: the header is closed, read, from the first step on and before an
\* artifact is opened; and whatever another process does to the header file
\* meanwhile, both artifacts hold one typedef and one field per signature of
\* the one list the parser returned, the same block in both.
C23_BothFromOneParse ==
  /\ pc \in {"parsed", "plugin_written", "host_written", "done"}
       => header_file = "closed"
  /\ pc = "start" => (header_file = "untouched" /\ Untouched)
  /\ HostWritten =>
       LET pl == Lines(plugin)
           hl == Lines(host)
       IN /\ TypedefBlock(pl) = TypedefBlock(hl)
          /\ StructText(pl) = StructText(hl)
          /\ TypedefAndFieldPerSignature(pl, api_functions)
          /\ TypedefAndFieldPerSignature(hl, api_functions)

\* C23 witness: the header gained a declaration after it was read and
\* before the host artifact was written; neither artifact names it.
C23_Witness ==
  /\ pc = "host_written"
  /\ preamble = "sentinel"
  /\ header # HeaderText(preamble, decls)
  /\ Len(api_functions) = 1
  /\ get_api_functions_ok(variant, header)
  /\ Len(get_api_functions(variant, header)) = 2
  /\ ~Mentions(host, DeclEarly.name)
  /\ ~Mentions(plugin, DeclEarly.name)

\* C24: no step after the parser's changes the signature list: each
\* with-block, with all its emitter calls, and the report leave the list as
\* the parser returned it, element for element and in order.
C24_EmittersLeaveListAlone ==
  [][pc # "start" => api_functions' = api_functions]_vars

\* C24 witness: after the last emitter call the list is still the two
\* signatures the parser returns of the header.
C24_Witness ==
  /\ pc = "host_written"
  /\ Len(api_functions) = 2
  /\ api_functions[1] # api_functions[2]
  /\ Len(api_functions[1].params) = 2
  /\ api_functions = get_api_functions(variant, header)

\* C25 as claimed: a signature has no parameters only if the text between
\* the first "(" of its declaration and the ")" that closes it is empty or
\* exactly "void", and a declaration that declares a parameter never becomes
\* a signature without parameters.
C25_EmptyOnlyIfNoParams ==
  pc = "parsed" =>
    \A k \in 1..Len(api_functions) :
      /\ api_functions[k].params = <<>> =>
           BalancedParams(definitions(variant, header)[k])
             \in {<<>>, <<"void">>}
      /\ Catalogue[Kept[k]].params # <<>> => api_functions[k].params # <<>>

\* The pieces parse_definition splits of a definition: params_match.split(',').
Pieces(d) ==
  Split(Slice(d, PyFind(d, <<"(">>) + 1, PyFind(d, <<")">>)), ",")

\* C26 as claimed: of every signature that went through the split, the i-th
\* parameter has a type and a name, neither empty, and type, one space and
\* name are the i-th piece without the white space around it.
C26_TypeSpaceNameIsPiece ==
  pc = "parsed" =>
    \A k \in 1..Len(api_functions) :
      LET d == definitions(variant, header)[k]
          params == api_functions[k].params
      IN ~NoParametersBranch(d) =>
           /\ Len(params) = Len(Pieces(d))
           /\ \A i \in 1..Len(params) :
                /\ params[i].type # <<>>
                /\ params[i].name # <<>>
                /\ params[i].type \o <<" ">> \o params[i].name
                     = Strip(Pieces(d)[i])

\* The variant a run is not.
OtherVariant == IF variant = "scripts" THEN "cli" ELSE "scripts"

\* C27: over a header without "..." the other variant aborts exactly when
\* this run aborts, returns the signature list this run's parser returned,
\* and writes a plugin artifact with the typedef block, the struct text and
\* the forwarders of this run's plugin artifact, and a host artifact with
\* its typedef block and struct text (compared once both are written).
C27_VariantsAgreeWithoutVariadic ==
  ~Contains(header, <<".", ".", ".">>) =>
    LET ok == get_api_functions_ok(OtherVariant, header)
        api == get_api_functions(OtherVariant, header)
    IN /\ pc = "aborted" => ~ok
       /\ pc = "parsed" => (ok /\ api_functions = api)
       /\ pc = "host_written" =>
            LET mine == Lines(plugin)
                other == Lines(plugin_text(OtherVariant, api))
            IN /\ TypedefBlock(mine) = TypedefBlock(other)
               /\ StructText(mine) = StructText(other)
               /\ ForwarderLines(mine) = ForwarderLines(other)
       /\ pc = "host_written" =>
            LET mine == Lines(host)
                other == Lines(host_text(OtherVariant, api))
            IN /\ TypedefBlock(mine) = TypedefBlock(other)
               /\ StructText(mine) = StructText(other)

\* C27 witness: both artifacts written from a header without "..." whose
\* two declarations became signatures, one of them read over two lines.
C27_Witness ==
  /\ pc = "host_written"
  /\ ~Contains(header, <<".", ".", ".">>)
  /\ Len(api_functions) = 2
  /\ api_functions[1].fn # api_functions[2].fn
  /\ Contains(header, DeclTwoLines.text)
  /\ Len(ForwarderLines(Lines(plugin))) > 1

---------------------------------------------------------------------------
\* The test runner: scripts/run_tests.py and its older copy tests/tests.py.

Runners == {"scripts/run_tests.py", "tests/tests.py"}

\* TEST_SUITE, a dict in its insertion order: each suite's title and files.
TEST_SUITE(r) ==
  IF r = "scripts/run_tests.py"
    THEN << [title |-> "Unit Tests",
             files |-> << "lang/basics.pk", "lang/builtin_fn.pk",
                          "lang/builtin_ty.pk", "lang/class.pk",
                          "lang/closure.pk", "lang/controlflow.pk",
                          "lang/fibers.pk", "lang/functions.pk",
                          "lang/import.pk" >>],
            [title |-> "Modules Test",
             files |-> << "modules/dummy.pk", "modules/math.pk",
                          "modules/io.pk", "modules/json.pk" >>],
            [title |-> "Random Scripts",
             files |-> << "random/linked_list.pk", "random/lisp_eval.pk",
                          "random/string_algo.pk" >>],
            [title |-> "Examples",
             files |-> << "examples/brainfuck.pk", "examples/fib.pk",
                          "examples/fizzbuzz.pk", "examples/helloworld.pk",
                          "examples/matrix.pk", "examples/pi.pk",
                          "examples/prime.pk" >>] >>
    ELSE << [title |-> "Unit Tests",
             files |-> << "lang/basics.pk", "lang/core.pk",
                          "lang/controlflow.pk", "lang/fibers.pk",
                          "lang/functions.pk", "lang/import.pk" >>],
            [title |-> "Examples",
             files |-> << "examples/brainfuck.pk", "examples/fib.pk",
                          "examples/fizzbuzz.pk", "examples/helloworld.pk",
                          "examples/pi.pk", "examples/prime.pk" >>] >>

\* The return codes a test subprocess is given: success, a failed script,
\* and the negative code of a subprocess ended by a signal.
ReturnCodes == {0, 1, 0 - 11}

\* The generator while the test runner is the program that runs.
GeneratorIdle ==
  /\ variant = "scripts"
  /\ preamble = "sentinel"
  /\ decls = <<>>
  /\ header = <<>>
  /\ pc = "idle"
  /\ api_functions = <<>>
  /\ plugin = <<>>
  /\ plugin_file = "untouched"
  /\ host = <<>>
  /\ host_file = "untouched"
  /\ stdout = <<>>
  /\ exit_status = -1
  /\ header_file = "untouched"
  /\ stderr = <<>>
  /\ run = 1
  /\ first_plugin = <<>>
  /\ first_host = <<>>

\* The module is loaded: tests_failed = False, and main is about to call
\* run_all_tests.
InitTests ==
  /\ GeneratorIdle
  /\ CheckIdle
  /\ runner \in Runners
  /\ rt_pc = "main"
  /\ suite_index = 0
  /\ test_index = 0
  /\ tests_failed = FALSE
  /\ returncode = 0
  /\ ran = <<>>
  /\ any_nonzero = FALSE
  /\ rt_status = -1

\* The position of the two loops of run_all_tests after the test at (s, t):
\* the next test of the suite, else the first test of the next suite, else
\* one suite past the last.
NextPosition(r, s, t) ==
  IF t < Len(TEST_SUITE(r)[s].files) THEN <<s, t + 1>> ELSE <<s + 1, 1>>

\* get_pocket_binary returns the interpreter: the loops start at the first
\* test of the first suite.
get_pocket_binary ==
  /\ rt_pc = "main"
  /\ rt_pc' = "running"
  /\ suite_index' = 1
  /\ test_index' = 1
  /\ UNCHANGED <<runner, tests_failed, returncode, ran, any_nonzero,
                 rt_status, generator, checker>>

\* get_pocket_binary on an unsupported platform, or with no interpreter at
\* the expected path: error_exit prints the message and calls sys.exit(1).
error_exit ==
  /\ rt_pc = "main"
  /\ rt_pc' = "error_exit"
  /\ rt_status' = 1
  /\ UNCHANGED <<runner, suite_index, test_index, tests_failed, returncode,
                 ran, any_nonzero, generator, checker>>

\* A run_test_file that forgets the failure at the next success: the global
\* assigned in both branches.
run_test_file_resetting ==
  /\ rt_pc = "running"
  /\ suite_index <= Len(TEST_SUITE(runner))
  /\ \E code \in ReturnCodes :
       /\ returncode' = code
       /\ tests_failed' = (code # 0)
       /\ any_nonzero' = (any_nonzero \/ code # 0)
  /\ ran' = Append(ran, TEST_SUITE(runner)[suite_index].files[test_index])
  /\ suite_index' = NextPosition(runner, suite_index, test_index)[1]
  /\ test_index' = NextPosition(runner, suite_index, test_index)[2]
  /\ UNCHANGED <<runner, rt_pc, rt_status, generator, checker>>

\* run_test_file on the test the loops are at: the subprocess returns a
\* code, print_error sets tests_failed when the code is not zero, and the
\* loops move on.
run_test_file ==
  /\ rt_pc = "running"
  /\ suite_index <= Len(TEST_SUITE(runner))
  /\ \E code \in ReturnCodes :
       /\ returncode' = code
       /\ tests_failed' = (tests_failed \/ code # 0)
       /\ any_nonzero' = (any_nonzero \/ code # 0)
  /\ ran' = Append(ran, TEST_SUITE(runner)[suite_index].files[test_index])
  /\ suite_index' = NextPosition(runner, suite_index, test_index)[1]
  /\ test_index' = NextPosition(runner, suite_index, test_index)[2]
  /\ UNCHANGED <<runner, rt_pc, rt_status, generator, checker>>

\* run_test_file when subprocess.run raises (the interpreter exists and
\* cannot be executed): no return code, no handler, Python ends the runner
\* with a traceback and status 1.
run_command_raises ==
  /\ rt_pc = "running"
  /\ suite_index <= Len(TEST_SUITE(runner))
  /\ rt_pc' = "traceback"
  /\ rt_status' = 1
  /\ UNCHANGED <<runner, suite_index, test_index, tests_failed, returncode,
                 ran, any_nonzero, generator, checker>>

\* run_test_file when the test failed and its stderr is not UTF-8:
\* print_error('-- Failed') has set tests_failed, decode raises, and Python
\* ends the runner with a traceback and status 1.
decode_raises ==
  /\ rt_pc = "running"
  /\ suite_index <= Len(TEST_SUITE(runner))
  /\ \E code \in ReturnCodes \ {0} : returncode' = code
  /\ tests_failed' = TRUE
  /\ any_nonzero' = TRUE
  /\ ran' = Append(ran, TEST_SUITE(runner)[suite_index].files[test_index])
  /\ rt_pc' = "traceback"
  /\ rt_status' = 1
  /\ UNCHANGED <<runner, suite_index, test_index, generator, checker>>

\* main after run_all_tests returned: sys.exit(1) if tests_failed, else the
\* end of the script, status 0.
main ==
  /\ rt_pc = "running"
  /\ suite_index > Len(TEST_SUITE(runner))
  /\ rt_pc' = "exited"
  /\ rt_status' = IF tests_failed THEN 1 ELSE 0
  /\ UNCHANGED <<runner, suite_index, test_index, tests_failed, returncode,
                 ran, any_nonzero, generator, checker>>

NextTests ==
  \/ get_pocket_binary
  \/ error_exit
  \/ run_test_file
  \/ run_command_raises
  \/ decode_raises
  \/ main

SpecTests == InitTests /\ [][NextTests]_vars

\* Every test file of every suite, in listed order.
RECURSIVE Flatten(_)
Flatten(suites) ==
  IF suites = <<>> THEN <<>>
  ELSE Head(suites).files \o Flatten(Tail(suites))

AllTests(r) == Flatten(TEST_SUITE(r))

\* The runner has ended, in whatever way.
RunnerEnded == rt_pc \in {"exited", "error_exit", "traceback"}

\* C28 (as stated): whenever the runner has ended it has run every test
\* file of every suite in listed order, and its exit status is 1 exactly
\* when a test subprocess returned nonzero; while it runs, tests_failed is
\* set exactly when a test subprocess has returned nonzero.
C28_RunsAllAndExitsOneIffFailure ==
  /\ tests_failed = any_nonzero
  /\ RunnerEnded =>
       /\ ran = AllTests(runner)
       /\ (rt_status = 1) <=> any_nonzero

\* C28 (amended): tests_failed is set exactly when a test subprocess has
\* returned nonzero; the tests run so far are a prefix of the listed order
\* whatever their results; a runner that found the interpreter and met no
\* exception has run every test file and exits with 1 exactly when a test
\* returned nonzero, else 0; a runner that did not find the interpreter
\* has run no test and exits with 1, and a runner ended by an exception
\* exits with 1.
C28_RunsAllUnlessStoppedEarly ==
  /\ tests_failed = any_nonzero
  /\ Len(ran) <= Len(AllTests(runner))
  /\ ran = SubSeq(AllTests(runner), 1, Len(ran))
  /\ rt_pc = "exited" =>
       /\ ran = AllTests(runner)
       /\ rt_status = (IF any_nonzero THEN 1 ELSE 0)
  /\ rt_pc = "error_exit" => (ran = <<>> /\ rt_status = 1 /\ ~any_nonzero)
  /\ rt_pc = "traceback" => rt_status = 1
  /\ ~RunnerEnded => rt_status = -1

\* A runner that went on after a failure and through a later success, and
\* exited with 1.
C28_Witness ==
  /\ rt_pc = "exited"
  /\ rt_status = 1
  /\ returncode = 0
  /\ ran = AllTests(runner)

---------------------------------------------------------------------------
\* The static checker: check_static of scripts/static_check.py and of its
\* older copy tests/check.py, on one file. A line is the sequence of its
\* characters.

\* The largest number of lines of a checked file.
MaxLines == 3

\* n characters that are neither a space nor a tab.
Fill(n) == [i \in 1..n |-> "x"]

\* ALLOW_LONG_LINES (ALLOW_LONG in tests/check.py).
ALLOW_LONG_LINES ==
  << <<"h", "t", "t", "p", ":", "/", "/">>,
     <<"h", "t", "t", "p", "s", ":", "/", "/">>,
     <<"<", "s", "c", "r", "i", "p", "t", " ">>,
     <<"<", "l", "i", "n", "k", " ">>,
     <<"<", "s", "v", "g", " ">> >>

\* The lines a checked file is made of, without their line ending: an empty
\* line; a statement; one with a trailing space; one with a tab; a single
\* brace; 79 characters; 80 characters; 80 characters ending with a space;
\* 80 characters with a URL; 80 characters with a URL ending with a space;
\* 80 characters with a URL and a tab.
CheckedLines ==
  << <<>>,
     <<"a", ";">>,
     <<"a", ";", " ">>,
     <<"\t", "a", ";">>,
     <<"}">>,
     Fill(79),
     Fill(80),
     Fill(79) \o <<" ">>,
     ALLOW_LONG_LINES[2] \o Fill(72),
     ALLOW_LONG_LINES[2] \o Fill(71) \o <<" ">>,
     <<"\t">> \o ALLOW_LONG_LINES[2] \o Fill(71) >>

\* The files: up to MaxLines lines; the last line of a file may lack its
\* line feed unless it is empty (the file then ends a line earlier).
CheckedFiles ==
  UNION {[1..n -> 1..Len(CheckedLines)] : n \in 0..MaxLines}

\* Line k of the file, as the file holds it, without its line ending.
LineOf(k) == CheckedLines[ck_file[k]]

\* fp.readlines(): every line with its line feed, the last one without
\* when the file does not end with one.
readlines ==
  [k \in 1..Len(ck_file) |->
     IF k < Len(ck_file) \/ ck_terminated THEN LineOf(k) \o <<"\n">>
     ELSE LineOf(k)]

\* str.endswith of one character.
EndsWith(line, c) == line # <<>> /\ line[Len(line)] = c

\* '\t' in line
HasTab(line) == \E i \in 1..Len(line) : line[i] = "\t"

\* The loop over ALLOW_LONG_LINES: skip is set at the first one the line
\* contains.
Allowed(line) ==
  \E i \in 1..Len(ALLOW_LONG_LINES) : Contains(line, ALLOW_LONG_LINES[i])

\* check_static is about to open one file.
InitCheck ==
  /\ GeneratorIdle
  /\ TestsIdle
  /\ ck_file \in CheckedFiles
  /\ ck_terminated \in BOOLEAN
  /\ ck_terminated \/ (ck_file # <<>> /\ LineOf(Len(ck_file)) # <<>>)
  /\ ck_pc = "open"
  /\ line_no = 0
  /\ is_last_empty = FALSE
  /\ reports = <<>>
  /\ checks_failed = FALSE

\* The errors of report_error calls, in order, added to those reported;
\* report_error sets checks_failed.
report_error(errors) ==
  /\ reports' = reports \o errors
  /\ checks_failed' = (checks_failed \/ errors # <<>>)

\* The file is read and closed; a last line without a line feed is
\* reported; is_last_empty = False; line_no = 0.
read_file ==
  /\ ck_pc = "open"
  /\ ck_pc' = "loop"
  /\ LET lines == readlines
     IN report_error(IF Len(lines) > 0
                        /\ ~EndsWith(lines[Len(lines)], "\n")
                     THEN << <<0, "file isn't ending with new line">> >>
                     ELSE <<>>)
  /\ is_last_empty' = FALSE
  /\ line_no' = 0
  /\ UNCHANGED <<ck_file, ck_terminated, generator, tests>>

\* line = line[:-1] of the next line of the loop.
NextLine == SubSeq(readlines[line_no + 1], 1, Len(readlines[line_no + 1]) - 1)

\* The tab check, the first of an iteration.
TabError(line) ==
  IF HasTab(line) THEN << <<line_no + 1, "contains tab(s)">> >> ELSE <<>>

\* One iteration of the loop that ends at `if skip: continue`: a line of
\* 80 characters or more that contains an allowed string. The tab check
\* has been made; nothing after the continue is.
check_line_continue ==
  /\ ck_pc = "loop"
  /\ line_no < Len(ck_file)
  /\ LET line == NextLine
     IN /\ Len(line) >= 80
        /\ Allowed(line)
        /\ report_error(TabError(line))
  /\ line_no' = line_no + 1
  /\ UNCHANGED <<ck_file, ck_terminated, ck_pc, is_last_empty, generator,
                 tests>>

\* One iteration of the loop that reaches its end: the tab check, the
\* length check, the trailing space check, and the empty line check with
\* its update of is_last_empty.
check_line ==
  /\ ck_pc = "loop"
  /\ line_no < Len(ck_file)
  /\ LET line == NextLine
     IN /\ ~(Len(line) >= 80 /\ Allowed(line))
        /\ report_error(
             TabError(line)
             \o (IF Len(line) >= 80
                 THEN << <<line_no + 1, "contains (> 79) characters">> >>
                 ELSE <<>>)
             \o (IF EndsWith(line, " ")
                 THEN << <<line_no + 1, "contains trailing white space">> >>
                 ELSE <<>>)
             \o (IF line = <<>> /\ is_last_empty
                 THEN << <<line_no + 1, "consequent empty lines">> >>
                 ELSE <<>>))
        /\ is_last_empty' = (line = <<>>)
  /\ line_no' = line_no + 1
  /\ UNCHANGED <<ck_file, ck_terminated, ck_pc, generator, tests>>

\* The loop is over.
end_of_file ==
  /\ ck_pc = "loop"
  /\ line_no = Len(ck_file)
  /\ ck_pc' = "done"
  /\ UNCHANGED <<ck_file, ck_terminated, line_no, is_last_empty, reports,
                 checks_failed, generator, tests>>

NextCheck ==
  \/ read_file
  \/ check_line_continue
  \/ check_line
  \/ end_of_file

SpecCheck == InitCheck /\ [][NextCheck]_vars

\* The error was reported at line k.
Reported(k, error) == \E i \in 1..Len(reports) : reports[i] = <<k, error>>

\* C29: once a file is checked, every line of it that ends with a space
\* has a trailing white space error and every line that contains a tab has
\* a tab error, whatever its length and content.
C29_TrailingSpaceAndTabAlwaysReported ==
  ck_pc = "done" =>
    \A k \in 1..Len(ck_file) :
      /\ EndsWith(LineOf(k), " ")
           => Reported(k, "contains trailing white space")
      /\ HasTab(LineOf(k)) => Reported(k, "contains tab(s)")

\* C30: when a line is about to be examined, is_last_empty is true exactly
\* when the line just before it was empty; and once a file is checked,
\* "consequent empty lines" is reported at line k exactly when lines k and
\* k - 1 are both empty.
C30_ConsequentEmptyLinesExactly ==
  /\ ck_pc = "loop" =>
       is_last_empty = (line_no >= 1 /\ LineOf(line_no) = <<>>)
  /\ ck_pc = "done" =>
       \A k \in 1..Len(ck_file) :
         Reported(k, "consequent empty lines")
           <=> (k > 1 /\ LineOf(k) = <<>> /\ LineOf(k - 1) = <<>>)

====
